---- MODULE Spec2Model ----
(***************************************************************************)
(* A model of the `variant!` macro of the variante crate (src/src/lib.rs)  *)
(* and of the compilation of a unit that invokes it.                       *)
(*                                                                         *)
(* A compilation unit is a sequence of call sites `variant!(V @ P<args>)`  *)
(* written in the scope that holds the declarations of the crate's own     *)
(* documentation and tests:                                                 *)
(*     enum Enum { Foo, Bar(u8), Baz { x: i32 } }                           *)
(*     enum GenericEnum<T, U> { Foo(T), Bar(U) }                            *)
(*     mod fuga { [pub] enum Enum<T> { Foo(T) } }                           *)
(*     [use fuga::Enum as FugaEnum;]                                        *)
(* Each call site is matched against the macro's single rule and           *)
(* transcribed (Expand); the transcribed block is then checked as ordinary *)
(* code (Check): the parameter type of assert_variant_exists and the       *)
(* struct pattern of its matches!.  The unit builds when every call site   *)
(* passed (Finish), and only a built unit runs (Start, Evaluate).          *)
(***************************************************************************)
EXTENDS Naturals, Sequences, FiniteSets

VARIABLES
    fugaEnumVis,  \* "pub" or "priv": the visibility written on fuga::Enum
    rootUse,      \* whether the scope holds `use fuga::Enum as FugaEnum;`
    sites,        \* the unit's call sites, in source order
    status,       \* per call site: "source", "expanded", "rejected", "passed", "failed"
    artifact,     \* per call site: the transcribed block (once expanded)
    diag,         \* per call site: the diagnostics its check reported
    expansions,   \* per call site: how many times it was expanded
    phase,        \* "compiling", "built", "failed", "running"
    value,        \* per call site: the value the block evaluated to
    calls         \* per call site: invocations of assert_variant_exists

vars == <<fugaEnumVis, rootUse, sites, status, artifact, diag, expansions,
          phase, value, calls>>

\* ---------------------------------------------------------------- bounds

\* Call sites in one compilation unit.
MaxSites == 2

\* Type arguments between the angle brackets of one call site.
MaxGenerics == 2

\* ------------------------------------------------------------ identifiers

\* An identifier is the sequence of its characters.
Foo == <<"F", "o", "o">>
Bar == <<"B", "a", "r">>
Baz == <<"B", "a", "z">>
Hoge == <<"H", "o", "g", "e">>

\* An identifier token as written at the call site: `name` or `r#name`.
Ident(n) == [raw |-> FALSE, name |-> n]
RawIdent(n) == [raw |-> TRUE, name |-> n]

\* The characters of the token as written.
Spelling(tok) == IF tok.raw THEN <<"r", "#">> \o tok.name ELSE tok.name

NoGenerics == [present |-> FALSE, args |-> <<>>]
Generics(a) == [present |-> TRUE, args |-> a]

Invocation(v, p, g) == [variant |-> v, enumeration |-> p, generics |-> g]

\* ----------------------------------------------------------- declarations

\* The scope of the call sites.
CallScope == <<>>

Variant(n, s) == [name |-> n, shape |-> s]

EnumDecl ==
    [module |-> <<>>, name |-> "Enum", kind |-> "enum", vis |-> "priv",
     arity |-> 0, target |-> <<>>,
     variants |-> {Variant(Foo, "unit"), Variant(Bar, "tuple"), Variant(Baz, "named")}]

GenericEnumDecl ==
    [module |-> <<>>, name |-> "GenericEnum", kind |-> "enum", vis |-> "priv",
     arity |-> 2, target |-> <<>>,
     variants |-> {Variant(Foo, "tuple"), Variant(Bar, "tuple")}]

FugaModDecl ==
    [module |-> <<>>, name |-> "fuga", kind |-> "mod", vis |-> "priv",
     arity |-> 0, target |-> <<>>, variants |-> {}]

FugaEnumDecl(vis) ==
    [module |-> <<"fuga">>, name |-> "Enum", kind |-> "enum", vis |-> vis,
     arity |-> 1, target |-> <<>>,
     variants |-> {Variant(Foo, "tuple")}]

UseDecl ==
    [module |-> <<>>, name |-> "FugaEnum", kind |-> "use", vis |-> "priv",
     arity |-> 0, target |-> <<"fuga", "Enum">>, variants |-> {}]

\* The items declared around the call sites.
Items(vis, use) ==
    {EnumDecl, GenericEnumDecl, FugaModDecl, FugaEnumDecl(vis)}
        \cup (IF use THEN {UseDecl} ELSE {})

NoItem ==
    [module |-> <<>>, name |-> "", kind |-> "none", vis |-> "priv",
     arity |-> 0, target |-> <<>>, variants |-> {}]

\* -------------------------------------------------------- name resolution

Resolved(st, it) == [status |-> st, item |-> it]

ItemsNamed(items, scope, seg) ==
    {it \in items : it.module = scope /\ it.name = seg}

\* Access that ignores visibility.
AccessibleAlways(it) == TRUE

\* An item is accessible from the call sites when it is declared in their
\* own scope or is marked pub.
Accessible(it) == it.module = CallScope \/ it.vis = "pub"

\* The enum a `use` declaration names (the declaration itself is legal).
RECURSIVE UseTarget(_, _, _)
UseTarget(items, scope, path) ==
    IF path = <<>> THEN NoItem
    ELSE LET found == ItemsNamed(items, scope, Head(path))
         IN  IF found = {} THEN NoItem
             ELSE LET it == CHOOSE x \in found : TRUE
                  IN  IF Len(path) = 1 THEN it
                      ELSE UseTarget(items, scope \o <<Head(path)>>, Tail(path))

\* Resolution of the type path `seg1::seg2::...::segN` from `scope`:
\* "ok" with the enum, "private" with the enum when a segment after the first
\* is not accessible, "unresolved" when a segment names nothing or the path
\* does not end at a type.
RECURSIVE ResolveFrom(_, _, _, _)
ResolveFrom(items, scope, path, private) ==
    IF path = <<>> THEN Resolved("unresolved", NoItem)
    ELSE LET found == ItemsNamed(items, scope, Head(path))
         IN  IF found = {} THEN Resolved("unresolved", NoItem)
             ELSE LET it == CHOOSE x \in found : TRUE
                      priv == private \/ ~Accessible(it)
                  IN  IF Len(path) = 1
                      THEN CASE it.kind = "enum" ->
                                    Resolved(IF priv THEN "private" ELSE "ok", it)
                             [] it.kind = "use" ->
                                    Resolved(IF priv THEN "private" ELSE "ok",
                                             UseTarget(items, CallScope, it.target))
                             [] OTHER -> Resolved("unresolved", NoItem)
                      ELSE IF it.kind = "mod"
                           THEN ResolveFrom(items, scope \o <<Head(path)>>,
                                            Tail(path), priv)
                           ELSE Resolved("unresolved", NoItem)

ResolveType(items, path) == ResolveFrom(items, CallScope, path, FALSE)

\* ------------------------------------------------------------- the macro

\* A matcher that takes a single identifier where the rule takes a path.
MatchesSingleSegment(inv) ==
    /\ Len(inv.enumeration) = 1
    /\ inv.generics.present => Len(inv.generics.args) >= 1

\* The rule's matcher: `$variant:ident @ $($enumeration:ident)::+
\* $(<$($generics:ty),+>)?`.  The path has at least one segment and a
\* generic argument list, when written, at least one type.
Matches(inv) ==
    /\ Len(inv.enumeration) >= 1
    /\ inv.generics.present => Len(inv.generics.args) >= 1

\* Stringifying the whole pattern `$variant {..}` instead of `$variant`.
StringifyPattern(tok) ==
    (IF tok.raw THEN <<"r", "#">> \o tok.name ELSE tok.name)
        \o <<" ", "{", ".", ".", "}">>

\* `::core::stringify!($variant)`: the token's characters as written.
Stringify(tok) ==
    IF tok.raw THEN <<"r", "#">> \o tok.name ELSE tok.name

\* A transcription without a block of its own: the fn item lands in the
\* enclosing function body, shared by every call site.
ItemScopeShared(i) == <<"fn">>

\* The scope the transcribed fn item is declared in: the transcription is a
\* block of its own (the inner braces of `{{ ... }}`), one per call site.
ItemScope(i) == <<"block", i>>

\* A transcription that calls the routine it declares.
TranscribeCalling(i, inv) ==
    [fnName |-> "assert_variant_exists",
     fnScope |-> ItemScope(i),
     paramType |-> [path |-> inv.enumeration, generics |-> inv.generics],
     patPath |-> inv.enumeration,
     patVariant |-> inv.variant,
     stmts |-> <<"assert_variant_exists">>,
     tail |-> Stringify(inv.variant)]

\* The rule's transcriber for call site i.
Transcribe(i, inv) ==
    [fnName |-> "assert_variant_exists",
     fnScope |-> ItemScope(i),
     paramType |-> [path |-> inv.enumeration, generics |-> inv.generics],
     patPath |-> inv.enumeration,
     patVariant |-> inv.variant,
     stmts |-> <<>>,
     tail |-> Stringify(inv.variant)]

NoArtifact ==
    [fnName |-> "", fnScope |-> <<>>,
     paramType |-> [path |-> <<>>, generics |-> NoGenerics],
     patPath |-> <<>>, patVariant |-> Ident(<<>>), stmts |-> <<>>, tail |-> <<>>]

\* ------------------------------------------------ checking the expansion

\* A type argument can stand for a type parameter declared as plain `T`
\* only when its size is known.
IsSized(ty) == ty # "str"

\* A parameter whose type is the bare path, its generic arguments left to
\* inference: only resolution and accessibility are checked.
ParamTypeDiagBarePath(items, ty) ==
    LET r == ResolveType(items, ty.path)
    IN  IF r.status = "unresolved" THEN {"type_not_found"}
        ELSE IF r.status = "private" THEN {"private"} ELSE {}

\* `on: $($enumeration)::+ $(<$($generics),+>)?`: the parameter type must
\* resolve, be accessible, take as many type arguments as were written and
\* be well-formed with them.
ParamTypeDiag(items, ty) ==
    LET r == ResolveType(items, ty.path)
        n == Len(ty.generics.args)
    IN  IF r.status = "unresolved" THEN {"type_not_found"}
        ELSE (IF r.status = "private" THEN {"private"} ELSE {})
             \cup (IF n # r.item.arity THEN {"generic_count"}
                   ELSE IF \E k \in 1..n : ~IsSized(ty.generics.args[k])
                        THEN {"unsized"} ELSE {})

\* A pattern that names the type but not the variant.
PatternDiagTypeOnly(items, path, tok) ==
    LET r == ResolveType(items, path)
    IN  IF r.status = "unresolved" THEN {"type_not_found"}
        ELSE IF r.status = "private" THEN {"private"} ELSE {}

\* `$($enumeration)::+ :: $variant {..}`: the path must resolve to an
\* accessible enum that declares a variant of that name; `{..}` accepts
\* every shape of variant.
PatternDiag(items, path, tok) ==
    LET r == ResolveType(items, path)
    IN  IF r.status = "unresolved" THEN {"type_not_found"}
        ELSE (IF r.status = "private" THEN {"private"} ELSE {})
             \cup (IF \E v \in r.item.variants : v.name = tok.name
                   THEN {} ELSE {"no_variant"})

\* Two fn items of one name in one scope are a redefinition.
DuplicateDiag(arts, st, i) ==
    IF \E j \in DOMAIN arts :
          /\ j # i
          /\ st[j] # "source" /\ st[j] # "rejected"
          /\ arts[j].fnScope = arts[i].fnScope
          /\ arts[j].fnName = arts[i].fnName
    THEN {"duplicate_item"} ELSE {}

\* A transcription that holds the literal alone, with no routine to check.
DiagnosticsNoRoutine(items, arts, st, i) == {}

\* Everything the check of call site i's transcription reports.
Diagnostics(items, arts, st, i) ==
    ParamTypeDiag(items, arts[i].paramType)
        \cup PatternDiag(items, arts[i].patPath, arts[i].patVariant)
        \cup DuplicateDiag(arts, st, i)

\* ------------------------------------------------------------ evaluation

NoValue == [set |-> FALSE, text |-> <<>>]
Literal(t) == [set |-> TRUE, text |-> t]

\* Running the block: its statements in order, then its tail expression.
\* The fn item is a declaration, not a statement; only a call statement
\* invokes it.
CallsIn(art) ==
    Cardinality({k \in DOMAIN art.stmts : art.stmts[k] = art.fnName})

BlockValue(art) == Literal(art.tail)

\* ------------------------------------------------------------ the inputs

RECURSIVE SeqsOfLen(_, _)
SeqsOfLen(S, n) ==
    IF n = 0 THEN {<<>>}
    ELSE {Append(q, x) : q \in SeqsOfLen(S, n - 1), x \in S}

SeqsUpTo(S, n) == UNION {SeqsOfLen(S, k) : k \in 0..n}

VariantTokens ==
    {Ident(Foo), Ident(Bar), Ident(Baz), Ident(Hoge), RawIdent(Foo)}

TypePaths ==
    {<<"Enum">>, <<"GenericEnum">>, <<"fuga", "Enum">>, <<"FugaEnum">>,
     <<"NonExistent">>, <<"fuga">>, <<>>}

TypeArgs == {"()", "i32", "i64", "str"}

GenericLists ==
    {NoGenerics} \cup {Generics(a) : a \in SeqsUpTo(TypeArgs, MaxGenerics)}

\* Every call site the bounds allow.
Invocations ==
    {Invocation(v, p, g) : v \in VariantTokens, p \in TypePaths, g \in GenericLists}

\* The call sites of the crate's documentation and tests, and those of the
\* nested enum under both of its names.
UnitInvocations ==
    {Invocation(Ident(v), <<"Enum">>, NoGenerics) : v \in {Foo, Bar, Baz, Hoge}}
    \cup {Invocation(Ident(Foo), <<"NonExistent">>, NoGenerics),
          Invocation(Ident(Foo), <<"GenericEnum">>, Generics(<<"()", "()">>)),
          Invocation(Ident(Bar), <<"GenericEnum">>, Generics(<<"()", "()">>)),
          Invocation(Ident(Bar), <<"GenericEnum">>, Generics(<<"i32", "i64">>))}
    \cup {Invocation(Ident(v), p, g) :
            v \in {Foo, Hoge},
            p \in {<<"fuga", "Enum">>, <<"FugaEnum">>},
            g \in {NoGenerics, Generics(<<"()">>)}}

\* A unit is one call site of any form, or several of the documented ones.
Units ==
    SeqsOfLen(Invocations, 1)
        \cup UNION {SeqsOfLen(UnitInvocations, n) : n \in 2..MaxSites}

Sites == DOMAIN sites

CurrentItems == Items(fugaEnumVis, rootUse)

\* ------------------------------------------------------ the state machine

\* `use fuga::Enum as FugaEnum;` is itself legal only when the enum is pub.
Init ==
    /\ fugaEnumVis \in {"pub", "priv"}
    /\ rootUse \in BOOLEAN
    /\ rootUse => fugaEnumVis = "pub"
    /\ sites \in Units
    /\ status = [i \in DOMAIN sites |-> "source"]
    /\ artifact = [i \in DOMAIN sites |-> NoArtifact]
    /\ diag = [i \in DOMAIN sites |-> {}]
    /\ expansions = [i \in DOMAIN sites |-> 0]
    /\ phase = "compiling"
    /\ value = [i \in DOMAIN sites |-> NoValue]
    /\ calls = [i \in DOMAIN sites |-> 0]

\* Macro expansion of call site i: the rule matches and the site is
\* replaced by its transcription, or no rule matches.
Expand(i) ==
    /\ phase = "compiling"
    /\ status[i] = "source"
    /\ expansions' = [expansions EXCEPT ![i] = @ + 1]
    /\ IF Matches(sites[i])
       THEN /\ artifact' = [artifact EXCEPT ![i] = Transcribe(i, sites[i])]
            /\ status' = [status EXCEPT ![i] = "expanded"]
            /\ diag' = diag
       ELSE /\ status' = [status EXCEPT ![i] = "rejected"]
            /\ diag' = [diag EXCEPT ![i] = {"no_rule_matched"}]
            /\ artifact' = artifact
    /\ UNCHANGED <<fugaEnumVis, rootUse, sites, phase, value, calls>>

\* Checking of call site i's transcription, once the whole unit is expanded.
Check(i) ==
    /\ phase = "compiling"
    /\ \A j \in Sites : status[j] # "source"
    /\ status[i] = "expanded"
    /\ LET d == Diagnostics(CurrentItems, artifact, status, i)
       IN  /\ diag' = [diag EXCEPT ![i] = d]
           /\ status' = [status EXCEPT ![i] = IF d = {} THEN "passed" ELSE "failed"]
    /\ UNCHANGED <<fugaEnumVis, rootUse, sites, artifact, expansions, phase,
                   value, calls>>

\* A build that succeeds as soon as one call site passed.
UnitBuildsAny(st) == \E j \in DOMAIN st : st[j] = "passed"

\* The unit builds when every call site passed its check.
UnitBuilds(st) == \A j \in DOMAIN st : st[j] = "passed"

\* The end of compilation: the unit is built when no call site reported a
\* diagnostic, and fails otherwise.
Finish ==
    /\ phase = "compiling"
    /\ \A j \in Sites : status[j] \in {"passed", "failed", "rejected"}
    /\ phase' = IF UnitBuilds(status) THEN "built" ELSE "failed"
    /\ UNCHANGED <<fugaEnumVis, rootUse, sites, status, artifact, diag,
                   expansions, value, calls>>

\* The built program starts.
Start ==
    /\ phase = "built"
    /\ phase' = "running"
    /\ UNCHANGED <<fugaEnumVis, rootUse, sites, status, artifact, diag,
                   expansions, value, calls>>

\* The running program evaluates the block that replaced call site i.
Evaluate(i) ==
    /\ phase = "running"
    /\ ~value[i].set
    /\ value' = [value EXCEPT ![i] = BlockValue(artifact[i])]
    /\ calls' = [calls EXCEPT ![i] = @ + CallsIn(artifact[i])]
    /\ UNCHANGED <<fugaEnumVis, rootUse, sites, status, artifact, diag,
                   expansions, phase>>

Next ==
    \/ \E i \in Sites : Expand(i)
    \/ \E i \in Sites : Check(i)
    \/ Finish
    \/ Start
    \/ \E i \in Sites : Evaluate(i)

Spec == Init /\ [][Next]_vars

\* ------------------------------------------- what the claims speak about

\* The enum a type path is meant to name in the scope of the call sites,
\* read off the declarations; NoItem when it names none.
Denotes(path) ==
    CASE path = <<"Enum">> -> EnumDecl
      [] path = <<"GenericEnum">> -> GenericEnumDecl
      [] path = <<"fuga", "Enum">> -> FugaEnumDecl(fugaEnumVis)
      [] path = <<"FugaEnum">> /\ rootUse -> FugaEnumDecl(fugaEnumVis)
      [] OTHER -> NoItem

\* The enum a path names is visible at the call sites.
Visible(path) == Denotes(path).module = <<>> \/ Denotes(path).vis = "pub"

Declares(E, tok) == \E v \in E.variants : v.name = tok.name

ShapeOf(E, tok) == (CHOOSE v \in E.variants : v.name = tok.name).shape

\* As many type arguments as the enum declares parameters.
RightCount(E, g) == Len(g.args) = E.arity

\* A type reference as the documentation writes it: no angle brackets for a
\* plain enum, one sized type per parameter for a generic one.
ProperArgs(E, g) ==
    /\ RightCount(E, g)
    /\ g.present <=> E.arity > 0
    /\ \A k \in DOMAIN g.args : g.args[k] # "str"

\* Call site i names a declared, visible variant through a proper reference.
ValidSite(i) ==
    LET E == Denotes(sites[i].enumeration)
    IN  /\ E # NoItem
        /\ Visible(sites[i].enumeration)
        /\ Declares(E, sites[i].variant)
        /\ ProperArgs(E, sites[i].generics)

Checked(i) == status[i] \in {"passed", "failed"}

Settled(i) == status[i] \in {"passed", "failed", "rejected"}

\* ----------------------------------------------------------------- claims

C2_UnknownVariant ==
    \A i \in Sites :
        LET E == Denotes(sites[i].enumeration)
        IN  (E # NoItem /\ Visible(sites[i].enumeration) /\ ~Declares(E, sites[i].variant)) =>
                /\ status[i] # "passed"
                /\ ~value[i].set
                /\ phase \notin {"built", "running"}
                /\ (Checked(i) /\ ProperArgs(E, sites[i].generics))
                       => diag[i] = {"no_variant"}

\* `variant!(Hoge @ Enum)` was checked and the unit failed.
C2_Witness ==
    /\ phase = "failed"
    /\ \E i \in Sites :
          /\ sites[i] = Invocation(Ident(Hoge), <<"Enum">>, NoGenerics)
          /\ status[i] = "failed"
          /\ diag[i] = {"no_variant"}

\* C3: a call site whose type path names no type in scope never passes and
\* never yields a value, whatever the variant identifier (also one that
\* another enum declares); its check reports "type not found" and the unit
\* does not build.
C3_UnresolvableType ==
    \A i \in Sites :
        (sites[i].enumeration # <<>> /\ Denotes(sites[i].enumeration) = NoItem) =>
            /\ status[i] # "passed"
            /\ ~value[i].set
            /\ phase \notin {"built", "running"}
            /\ Checked(i) => "type_not_found" \in diag[i]

\* `variant!(Foo @ NonExistent)`, Foo being a variant of the other enums,
\* was checked and the unit failed.
C3_Witness ==
    /\ phase = "failed"
    /\ \E i \in Sites :
          /\ sites[i] = Invocation(Ident(Foo), <<"NonExistent">>, NoGenerics)
          /\ status[i] = "failed"
          /\ "type_not_found" \in diag[i]

\* C4: a call site that names a declared variant of an enum that is not
\* visible at the call site never passes and never yields a value; its check
\* reports a privacy error and the unit does not build.
C4_InvisibleVariant ==
    \A i \in Sites :
        LET E == Denotes(sites[i].enumeration)
        IN  (E # NoItem /\ ~Visible(sites[i].enumeration) /\ Declares(E, sites[i].variant)) =>
                /\ status[i] # "passed"
                /\ ~value[i].set
                /\ phase \notin {"built", "running"}
                /\ Checked(i) => "private" \in diag[i]

\* `variant!(Foo @ fuga::Enum<()>)` with the enum not pub was checked, its
\* only diagnostic the privacy error, and the unit failed.
C4_Witness ==
    /\ phase = "failed"
    /\ fugaEnumVis = "priv"
    /\ \E i \in Sites :
          /\ sites[i] = Invocation(Ident(Foo), <<"fuga", "Enum">>, Generics(<<"()">>))
          /\ diag[i] = {"private"}

\* C5: for GenericEnum<T, U> with Foo(T) and Bar(U), a call site with two
\* type arguments, whichever they are, passes its check and evaluates to
\* the variant's name.
C5_GenericIndifference ==
    \A i \in Sites :
        (/\ sites[i].enumeration = <<"GenericEnum">>
         /\ sites[i].generics.present
         /\ Len(sites[i].generics.args) = 2
         /\ sites[i].variant \in {Ident(Foo), Ident(Bar)}) =>
            /\ status[i] # "failed"
            /\ value[i].set => value[i].text = Spelling(sites[i].variant)

\* The same with type arguments whose size is known: every such call site
\* passes and evaluates to the variant's name.
C5_SizedArguments ==
    \A i \in Sites :
        (/\ sites[i].enumeration = <<"GenericEnum">>
         /\ sites[i].generics.present
         /\ Len(sites[i].generics.args) = 2
         /\ \A k \in 1..2 : sites[i].generics.args[k] # "str"
         /\ sites[i].variant \in {Ident(Foo), Ident(Bar)}) =>
            /\ status[i] # "failed"
            /\ value[i].set => value[i].text = Spelling(sites[i].variant)

SameButPath(i, j) ==
    /\ rootUse
    /\ sites[i].enumeration = <<"fuga", "Enum">>
    /\ sites[j].enumeration = <<"FugaEnum">>
    /\ sites[i].variant = sites[j].variant
    /\ sites[i].generics = sites[j].generics

\* C7: with the nested enum visible, a call site that names it by its
\* multi-segment path and one that names it by a single segment end alike:
\* same status, same diagnostics, same value; and the value of the path form
\* is the bare variant name, without the path.
C7_PathIndifference ==
    \A i, j \in Sites :
        SameButPath(i, j) =>
            /\ (Settled(i) /\ Settled(j)) =>
                   (status[i] = status[j] /\ diag[i] = diag[j])
            /\ (value[i].set /\ value[j].set) => value[i] = value[j]
            /\ value[i].set => value[i].text = Spelling(sites[i].variant)

\* `variant!(Foo @ fuga::Enum<()>)` and `variant!(Foo @ FugaEnum<()>)` in
\* one running unit, both evaluated to "Foo".
C7_Witness ==
    /\ phase = "running"
    /\ \E i, j \in Sites :
          /\ SameButPath(i, j)
          /\ sites[i].generics = Generics(<<"()">>)
          /\ value[i] = Literal(Foo) /\ value[j] = Literal(Foo)

C9_NoRuntimeFailure ==
    /\ (\E i \in Sites : Checked(i)) => \A j \in Sites : status[j] # "source"
    /\ phase = "running" =>
          \A i \in Sites : status[i] = "passed" /\ diag[i] = {}
    /\ \A i \in Sites : value[i].set => phase = "running"
    /\ \A i \in Sites : calls[i] = 0

\* A running unit of two call sites, both evaluated.
C9_Witness ==
    /\ phase = "running"
    /\ Len(sites) = 2
    /\ \A i \in Sites : value[i].set /\ calls[i] = 0

\* What call site `inv` comes to when it is the unit's only call site.
AloneDiag(inv) ==
    IF Matches(inv)
    THEN Diagnostics(CurrentItems, <<Transcribe(1, inv)>>, <<"expanded">>, 1)
    ELSE {"no_rule_matched"}

\* C10: a call site is expanded once; its diagnostics and its value are
\* those it has as the only call site of a unit, whatever the other call
\* sites are and in whatever order they stand; two call sites with the same
\* arguments end alike.
C10_CallSiteIndependence ==
    /\ \A i \in Sites :
          /\ expansions[i] = (IF status[i] = "source" THEN 0 ELSE 1)
          /\ Settled(i) => diag[i] = AloneDiag(sites[i])
          /\ value[i].set => value[i] = Literal(Stringify(sites[i].variant))
    /\ \A i, j \in Sites :
          (sites[i] = sites[j] /\ Settled(i) /\ Settled(j)) =>
              (status[i] = status[j] /\ diag[i] = diag[j])

\* The same call site twice in one running unit, both evaluated to "Foo".
C10_Witness ==
    /\ phase = "running"
    /\ Len(sites) = 2
    /\ sites[1] = sites[2]
    /\ value[1] = Literal(Foo) /\ value[2] = Literal(Foo)

====
